---- MODULE Spec2Model ----
(***************************************************************************)
(* Model of mysql_cleanup.py: the policy load (get_cleanup_configs), the   *)
(* statement builder (build_delete_statement), the batch-delete loop       *)
(* (execute_batch_delete), the per-policy driver (execute_cleanup,         *)
(* _update_last_run) and the orchestrator (run).                           *)
(*                                                                         *)
(* Every statement sent to a database is one step of the model, so that    *)
(* rows may age into a policy's window between two statements and so that  *)
(* any statement may fail (mysql exits non-zero, subprocess.run raises).   *)
(***************************************************************************)
EXTENDS Integers, Sequences, FiniteSets, TLC

\* ------------------------------------------------------------------ bounds
MaxPolicies == 2
MaxRows == 3
MaxRowsRun == 1
MaxIterations == 3
MaxRuns == 2
MaxAgeIns == 1

Ids == 1..MaxPolicies

\* -------------------------------------------------- configuration-table rows
\* The rows are what `mysql --batch` prints: every field is text.
Placeholder == "RETENSION"

\* int(text) of lines 360-365: the integers whose decimal text the model uses.
IntTexts == { ToString(n) : n \in -1..9 }

IsIntText(s) == s \in IntTexts

IntOf(s) == CHOOSE n \in -1..9 : ToString(n) = s

\* Row templates: the where_condition is a sequence of tokens.
RowTemplates ==
  { [where_condition |-> <<"created_at<", Placeholder>>, retension_days |-> "1", delete_limit |-> "1"],
    [where_condition |-> <<"created_at<", Placeholder>>, retension_days |-> "0", delete_limit |-> "2"],
    [where_condition |-> <<"archived=1">>,               retension_days |-> "1", delete_limit |-> "1"],
    [where_condition |-> <<Placeholder, "<", Placeholder>>, retension_days |-> "-1", delete_limit |-> "2"],
    [where_condition |-> <<"created_at<", Placeholder>>, retension_days |-> "1", delete_limit |-> "0"],
    [where_condition |-> <<"created_at<", Placeholder>>, retension_days |-> "1", delete_limit |-> "-1"],
    [where_condition |-> <<"created_at<", Placeholder>>, retension_days |-> "1", delete_limit |-> "abc"] }

MkRow(i, t) == [config_id |-> ToString(i),
                where_condition |-> t.where_condition,
                retension_days |-> t.retension_days,
                delete_limit |-> t.delete_limit]

\* The result sets the SELECT of lines 328-345 can return: ORDER BY config_id.
ConfigTables ==
  UNION { { [i \in 1..n |-> MkRow(i, f[i])] : f \in [1..n -> RowTemplates] } : n \in 0..MaxPolicies }

\* ---------------------------------------------------------- policy load
\* Lines 359-365: int() of a numeric field raises ValueError on other text.
RowConverts(r) ==
  IsIntText(r.config_id) /\ IsIntText(r.retension_days) /\ IsIntText(r.delete_limit)

\* Lines 357-371: one row to a CleanupConfig.
ToCleanupConfig(r) ==
  [config_id |-> IntOf(r.config_id),
   where_condition |-> r.where_condition,
   retension_days |-> IntOf(r.retension_days),
   delete_limit |-> IntOf(r.delete_limit)]

\* Lines 347-378: the whole load. One ValueError leaves the for loop and is
\* re-raised (376-378); otherwise every row becomes a config, none is dropped.
LoadRaises(rows) == \E i \in 1..Len(rows) : ~RowConverts(rows[i])

LoadedConfigs(rows) == [i \in 1..Len(rows) |-> ToCleanupConfig(rows[i])]

\* ------------------------------------------------------ statement builder
\* Line 264: str.replace substitutes every occurrence of the keyword.
ReplaceRetension(w, days) ==
  [i \in 1..Len(w) |-> IF w[i] = Placeholder THEN ToString(days) ELSE w[i]]

\* Lines 256-269.
build_delete_statement(c) ==
  [where_clause |-> ReplaceRetension(c.where_condition, c.retension_days),
   limit |-> c.delete_limit]

\* ------------------------------------------------------- the target server
\* A DELETE ... LIMIT n with n < 0 is a syntax error: mysql exits non-zero.
StatementValid(stmt) == stmt.limit >= 0

Min(a, b) == IF a < b THEN a ELSE b

\* Rows a valid bounded DELETE removes when `matching` rows match.
ServerDeletes(stmt, matching) == Min(stmt.limit, matching)

\* stdout of `mysql --batch -e "DELETE ...; SELECT ROW_COUNT() as affected_rows;"`:
\* the column header, then the count.
Stdout(n) == << "affected_rows", ToString(n) >>

\* ------------------------------------------------------ batch-delete loop
\* Line 217: line.strip().isdigit(), on the lines the server prints.
IsDigitLine(l) == l \in { ToString(n) : n \in 0..9 }

RECURSIVE FirstDigit(_, _)
FirstDigit(lines, i) ==
  IF i > Len(lines) THEN 0
  ELSE IF IsDigitLine(lines[i]) THEN IntOf(lines[i])
  ELSE FirstDigit(lines, i + 1)

\* Lines 212-219.
ParseFirstLineOnly(lines) ==
  IF Len(lines) > 0 /\ IsDigitLine(lines[1]) THEN IntOf(lines[1]) ELSE 0

ParseAffectedRows(lines) == FirstDigit(lines, 1)

\* Line 192.
LoopContinuesOffByOne(it, maxit) == it <= maxit

LoopContinues(it, maxit) == it < maxit

\* Line 221.
ConvergedNever(affected) == FALSE

Converged(affected) == affected = 0

\* Line 225.
AccumulateOverwrite(total, affected) == affected

Accumulate(total, affected) == total + affected

\* Line 232.
CapWarning(it, maxit) == it >= maxit

\* ------------------------------------------------------------ orchestrator
\* Line 405.
SkipDeletionNever(dry) == FALSE

SkipDeletion(dry) == dry

\* Lines 442-446: the except clause logs a warning and does not re-raise.
UpdateLastRunPropagates(ok) == ~ok

UpdateLastRunRaises(ok) == FALSE

\* Lines 427-429 and 487-489: after a failed batch delete nothing more is sent
\* for the policy; the exception skips line 423.
StatementsAfterFailureWithUpdate(id) == << [op |-> "UPDATE", id |-> id] >>

StatementsAfterFailure(id) == << >>

\* Lines 487-489: the handler leaves total_rows_deleted alone.
TotalAfterFailureKeepsPartial(total, partial) == total + partial

TotalAfterFailure(total, partial) == total

\* Lines 479, 487-489: the for loop goes on with the next config.
AbortAfterFailure(i, n) == n + 1

NextAfterFailure(i, n) == i + 1

\* ------------------------------------------------------------------- state
VARIABLES
  cfgTable,            \* rows of the configuration table that the SELECT returns
  rows,                \* rows[id]: rows of policy id's table matching its predicate
  max_iterations,      \* execute_batch_delete's max_iterations
  dry_run,             \* run's dry_run
  run,                 \* number of the current invocation of the script
  ageIns,              \* rows that have aged into a window so far
  pc,                  \* position of run()
  error,               \* exception that ended the invocation, if any
  configs,             \* list returned by get_cleanup_configs
  idx,                 \* enumerate index of the for loop of run (line 479)
  successful, failed, total_rows_deleted,      \* lines 475-477
  delete_stmt,         \* statement built at line 394
  total_deleted, iteration, brk,               \* locals of execute_batch_delete
  hist,                \* per policy: what was observed in this invocation
  attempted,           \* config ids in the order execute_cleanup was called
  log                  \* statements sent to the databases, in order

vars == << cfgTable, rows, max_iterations, dry_run, run, ageIns, pc, error, configs, idx,
           successful, failed, total_rows_deleted, delete_stmt, total_deleted,
           iteration, brk, hist, attempted, log >>

NoStmt == [where_clause |-> << >>, limit |-> 0]

\* What is observed of one policy in one invocation:
\*   status   outcome run counted: "none", "ok" (line 486) or "failed" (line 489)
\*   ret      rows_deleted run received from execute_cleanup
\*   phase    of execute_batch_delete: "none", "running", "returned", "raised"
\*   total    value execute_batch_delete returned
\*   partial  total_deleted when execute_batch_delete raised
\*   iters    DELETE statements sent
\*   zeros    DELETE statements that affected no row
\*   removed  rows the server removed
\*   warned   the maximum-iterations warning was logged
\*   start    matching rows when execute_batch_delete was called
\*   aged     a row has aged in since execute_batch_delete was called
\*   upd      outcome of the UPDATE of last_run_at: "none", "ok", "failed"
\*   clean    the last DELETE affected no row and no row has aged in since
\*   prevClean  the previous invocation's execute_batch_delete returned with
\*              clean, and no row has aged in since
NoHist == [status |-> "none", ret |-> 0, phase |-> "none", total |-> 0, partial |-> 0,
           iters |-> 0, zeros |-> 0, removed |-> 0, warned |-> FALSE, start |-> 0,
           aged |-> FALSE, upd |-> "none", clean |-> FALSE, prevClean |-> FALSE]

\* State at the start of an invocation, for the configuration tables in T.
InitOver(T, maxRows) ==
  /\ cfgTable \in T
  /\ rows \in { r \in [Ids -> 0..maxRows] : \A i \in Ids : i > Len(cfgTable) => r[i] = 0 }
  /\ max_iterations \in 1..MaxIterations
  /\ dry_run \in BOOLEAN
  /\ run = 1
  /\ ageIns = 0
  /\ pc = "start"
  /\ error = "none"
  /\ configs = << >>
  /\ idx = 0
  /\ successful = 0 /\ failed = 0 /\ total_rows_deleted = 0
  /\ delete_stmt = NoStmt
  /\ total_deleted = 0 /\ iteration = 0 /\ brk = FALSE
  /\ hist = [i \in Ids |-> NoHist]
  /\ attempted = << >>
  /\ log = << >>

Init == InitOver(ConfigTables, MaxRowsRun)

\* One policy in the configuration table: the batch deleter on its own.
InitBatch == InitOver({ t \in ConfigTables : Len(t) = 1 }, MaxRows)

Cur == configs[idx].config_id

\* run, lines 464-477: connect, load the policies, initialise the counters.
GetCleanupConfigs ==
  /\ pc = "start"
  /\ \E queryOk \in BOOLEAN :
       IF ~queryOk \/ LoadRaises(cfgTable)
       THEN /\ pc' = "error"                       \* lines 376-378, 562-564
            /\ error' = IF ~queryOk THEN "CalledProcessError" ELSE "ValueError"
            /\ UNCHANGED << configs, idx >>
       ELSE IF cfgTable = << >>
       THEN /\ pc' = "done"                        \* lines 350-352, 469-471
            /\ UNCHANGED << configs, idx, error >>
       ELSE /\ configs' = LoadedConfigs(cfgTable)
            /\ idx' = 1
            /\ pc' = "policy"
            /\ UNCHANGED error
  /\ UNCHANGED << cfgTable, rows, max_iterations, dry_run, run, ageIns, successful,
                  failed, total_rows_deleted, delete_stmt, total_deleted, iteration,
                  brk, hist, attempted, log >>

\* execute_cleanup, lines 391-410, up to the call of execute_batch_delete; in a
\* dry run it returns 0 and run counts the policy (lines 484-486).
ExecuteCleanup ==
  /\ pc = "policy"
  /\ idx <= Len(configs)
  /\ delete_stmt' = build_delete_statement(configs[idx])
  /\ attempted' = Append(attempted, Cur)
  /\ IF SkipDeletion(dry_run)
     THEN /\ total_rows_deleted' = total_rows_deleted + 0
          /\ successful' = successful + 1
          /\ idx' = idx + 1
          /\ hist' = [hist EXCEPT ![Cur].status = "ok", ![Cur].ret = 0]
          /\ UNCHANGED << pc, total_deleted, iteration, brk >>
     ELSE /\ total_deleted' = 0
          /\ iteration' = 0
          /\ brk' = FALSE
          /\ pc' = "loop"
          /\ hist' = [hist EXCEPT ![Cur].phase = "running",
                                  ![Cur].start = rows[Cur],
                                  ![Cur].aged = FALSE]
          /\ UNCHANGED << total_rows_deleted, successful, idx >>
  /\ UNCHANGED << cfgTable, rows, max_iterations, dry_run, run, ageIns, error, configs,
                  failed, log >>

\* One pass of the while loop, lines 192-230. A failing statement raises out of
\* execute_batch_delete and execute_cleanup into the handler of run (487-489).
DeleteIteration ==
  /\ pc = "loop"
  /\ ~brk
  /\ LoopContinues(iteration, max_iterations)
  /\ iteration' = iteration + 1
  /\ \E ok \in BOOLEAN :
       IF ok /\ StatementValid(delete_stmt)
       THEN LET n == ServerDeletes(delete_stmt, rows[Cur])
                affected_rows == ParseAffectedRows(Stdout(n))
            IN /\ rows' = [rows EXCEPT ![Cur] = @ - n]
               /\ log' = Append(log, [op |-> "DELETE", id |-> Cur])
               /\ IF Converged(affected_rows)
                  THEN /\ brk' = TRUE
                       /\ UNCHANGED total_deleted
                  ELSE /\ total_deleted' = Accumulate(total_deleted, affected_rows)
                       /\ UNCHANGED brk
               /\ hist' = [hist EXCEPT ![Cur].iters = @ + 1,
                                       ![Cur].removed = @ + n,
                                       ![Cur].zeros = @ + (IF n = 0 THEN 1 ELSE 0),
                                       ![Cur].clean = (n = 0)]
               /\ UNCHANGED << pc, idx, failed, total_rows_deleted >>
       ELSE /\ log' = Append(log, [op |-> "DELETE", id |-> Cur]) \o StatementsAfterFailure(Cur)
            /\ failed' = failed + 1
            /\ total_rows_deleted' = TotalAfterFailure(total_rows_deleted, total_deleted)
            /\ idx' = NextAfterFailure(idx, Len(configs))
            /\ pc' = "policy"
            /\ hist' = [hist EXCEPT ![Cur].iters = @ + 1,
                                    ![Cur].phase = "raised",
                                    ![Cur].status = "failed",
                                    ![Cur].partial = total_deleted]
            /\ UNCHANGED << rows, total_deleted, brk >>
  /\ UNCHANGED << cfgTable, max_iterations, dry_run, run, ageIns, error, configs,
                  successful, delete_stmt, attempted >>

\* Lines 232-235 and 420: the loop has ended; warn if the cap was reached.
LoopExit ==
  /\ pc = "loop"
  /\ brk \/ ~LoopContinues(iteration, max_iterations)
  /\ hist' = [hist EXCEPT ![Cur].warned = CapWarning(iteration, max_iterations),
                          ![Cur].phase = "returned",
                          ![Cur].total = total_deleted]
  /\ pc' = "update"
  /\ UNCHANGED << cfgTable, rows, max_iterations, dry_run, run, ageIns, error, configs,
                  idx, successful, failed, total_rows_deleted, delete_stmt, total_deleted,
                  iteration, brk, attempted, log >>

\* Lines 423-425, 431-446, 484-486: the UPDATE of last_run_at, then the return
\* of total_deleted to run.
UpdateLastRun ==
  /\ pc = "update"
  /\ log' = Append(log, [op |-> "UPDATE", id |-> Cur])
  /\ \E ok \in BOOLEAN :
       IF UpdateLastRunRaises(ok)
       THEN /\ failed' = failed + 1
            /\ total_rows_deleted' = TotalAfterFailure(total_rows_deleted, total_deleted)
            /\ idx' = NextAfterFailure(idx, Len(configs))
            /\ hist' = [hist EXCEPT ![Cur].status = "failed",
                                    ![Cur].upd = IF ok THEN "ok" ELSE "failed"]
            /\ UNCHANGED successful
       ELSE /\ total_rows_deleted' = total_rows_deleted + total_deleted
            /\ successful' = successful + 1
            /\ idx' = idx + 1
            /\ hist' = [hist EXCEPT ![Cur].status = "ok",
                                    ![Cur].ret = total_deleted,
                                    ![Cur].upd = IF ok THEN "ok" ELSE "failed"]
            /\ UNCHANGED failed
  /\ pc' = "policy"
  /\ UNCHANGED << cfgTable, rows, max_iterations, dry_run, run, ageIns, error, configs,
                  delete_stmt, total_deleted, iteration, brk, attempted >>

\* Lines 491-500: the summary.
Summary ==
  /\ pc = "policy"
  /\ idx > Len(configs)
  /\ pc' = "done"
  /\ UNCHANGED << cfgTable, rows, max_iterations, dry_run, run, ageIns, error, configs,
                  idx, successful, failed, total_rows_deleted, delete_stmt, total_deleted,
                  iteration, brk, hist, attempted, log >>

\* The script is invoked again (lines 556-558): nothing is kept in the process;
\* the tables are as the previous invocation left them.
Rerun ==
  /\ pc \in {"done", "error"}
  /\ run < MaxRuns
  /\ run' = run + 1
  /\ dry_run' \in BOOLEAN
  /\ pc' = "start"
  /\ error' = "none"
  /\ configs' = << >>
  /\ idx' = 0
  /\ successful' = 0 /\ failed' = 0 /\ total_rows_deleted' = 0
  /\ delete_stmt' = NoStmt
  /\ total_deleted' = 0 /\ iteration' = 0 /\ brk' = FALSE
  /\ hist' = [i \in Ids |-> [NoHist EXCEPT !.prevClean =
                                  hist[i].phase = "returned" /\ hist[i].clean]]
  /\ attempted' = << >>
  /\ log' = << >>
  /\ UNCHANGED << cfgTable, rows, max_iterations, ageIns >>

\* The environment: time passes and one more row of policy i's table matches
\* its predicate (or a row is inserted).
AgeIn(i) ==
  /\ i <= Len(cfgTable)
  /\ rows[i] < MaxRows
  /\ ageIns < MaxAgeIns
  /\ rows' = [rows EXCEPT ![i] = @ + 1]
  /\ ageIns' = ageIns + 1
  /\ hist' = [hist EXCEPT ![i].aged = TRUE, ![i].clean = FALSE, ![i].prevClean = FALSE]
  /\ UNCHANGED << cfgTable, max_iterations, dry_run, run, pc, error, configs, idx, successful,
                  failed, total_rows_deleted, delete_stmt, total_deleted, iteration,
                  brk, attempted, log >>

\* One invocation of the script, with no concurrent access to the target
\* tables (the design's assumption for an orchestrated run).
Next ==
  \/ GetCleanupConfigs
  \/ ExecuteCleanup
  \/ DeleteIteration
  \/ LoopExit
  \/ UpdateLastRun
  \/ Summary

Spec == Init /\ [][Next]_vars

\* Successive invocations on a configuration table of one policy, while rows
\* age into the policy's window.
NextBatch ==
  \/ GetCleanupConfigs
  \/ ExecuteCleanup
  \/ DeleteIteration
  \/ LoopExit
  \/ UpdateLastRun
  \/ Summary
  \/ Rerun
  \/ \E i \in Ids : AgeIn(i)

SpecBatch == InitBatch /\ [][NextBatch]_vars

\* ------------------------------------------------------------- properties
\* Row limit of policy i, read off the configuration table.
LimitOf(i) == IntOf(cfgTable[i].delete_limit)

Ceil(r, l) == (r + l - 1) \div l

\* Positions of the log holding a statement `op` for policy i.
Sent(op, i) == { k \in 1..Len(log) : log[k].op = op /\ log[k].id = i }

\* C1: a policy with row limit L > 0 and R matching rows when
\* execute_batch_delete is called, with no row aging in since, no statement
\* failure and ceil(R / L) <= max_iterations: execute_batch_delete returns R
\* and no matching row is left.
C1_TotalEqualsMatching ==
  \A i \in Ids :
    ( /\ hist[i].phase = "returned"
      /\ LimitOf(i) > 0
      /\ ~hist[i].aged
      /\ Ceil(hist[i].start, LimitOf(i)) <= max_iterations )
    => /\ hist[i].total = hist[i].start
       /\ rows[i] = 0

C1_Witness ==
  \E i \in Ids :
    /\ hist[i].phase = "returned"
    /\ LimitOf(i) = 2
    /\ ~hist[i].aged
    /\ hist[i].start = 3
    /\ hist[i].iters >= 2
    /\ hist[i].total = 3

\* C2 as claimed: with row limit L > 0, R matching rows, no row aging in and
\* the cap not reached, exactly ceil(R / L) DELETE statements are sent.
C2_CeilIterations ==
  \A i \in Ids :
    ( /\ hist[i].phase = "returned"
      /\ LimitOf(i) > 0
      /\ ~hist[i].aged
      /\ ~hist[i].warned )
    => hist[i].iters = Ceil(hist[i].start, LimitOf(i))

\* C2 amended: with row limit L > 0, R matching rows and no row aging in,
\* execute_batch_delete sends ceil(R / L) DELETE statements that affect rows
\* and then, unless max_iterations is reached first, one more that affects
\* none: min(ceil(R / L) + 1, max_iterations) statements.
C2_CeilPlusOneIterations ==
  \A i \in Ids :
    ( /\ hist[i].phase = "returned"
      /\ LimitOf(i) > 0
      /\ ~hist[i].aged )
    => /\ hist[i].iters = Min(Ceil(hist[i].start, LimitOf(i)) + 1, max_iterations)
       /\ hist[i].iters - hist[i].zeros = Min(Ceil(hist[i].start, LimitOf(i)), max_iterations)

C2_Witness ==
  \E i \in Ids :
    /\ hist[i].phase = "returned"
    /\ LimitOf(i) = 2
    /\ ~hist[i].aged
    /\ hist[i].start = 3
    /\ hist[i].iters = 3
    /\ hist[i].zeros = 1

\* C3: execute_batch_delete never sends more than max_iterations DELETE
\* statements; if every one of them affects rows it sends exactly
\* max_iterations, logs the maximum-iterations warning and returns, without
\* error, the sum of the affected counts.
C3_SafetyCap ==
  \A i \in Ids :
    /\ hist[i].iters <= max_iterations
    /\ Cardinality(Sent("DELETE", i)) <= max_iterations
    /\ (hist[i].phase = "returned" /\ hist[i].zeros = 0)
         => /\ hist[i].iters = max_iterations
            /\ hist[i].warned
            /\ hist[i].total = hist[i].removed
            /\ hist[i].status # "failed"

C3_Witness ==
  \E i \in Ids :
    /\ hist[i].status = "ok"
    /\ hist[i].phase = "returned"
    /\ hist[i].zeros = 0
    /\ hist[i].iters = 2
    /\ hist[i].total = 3
    /\ rows[i] > 0

\* C7: if the previous invocation's execute_batch_delete ended with a DELETE
\* that affected no row and no row has aged in since, this invocation's
\* execute_batch_delete sends one DELETE, returns 0 and leaves the table as
\* it was.
C7_Idempotent ==
  \A i \in Ids :
    (hist[i].phase = "returned" /\ hist[i].prevClean)
    => /\ hist[i].iters = 1
       /\ hist[i].total = 0
       /\ hist[i].removed = 0
       /\ rows[i] = hist[i].start

C7_Witness ==
  \E i \in Ids :
    /\ run = 2
    /\ hist[i].phase = "returned"
    /\ hist[i].prevClean
    /\ ageIns > 0
    /\ max_iterations > 1
    /\ LimitOf(i) > 0

\* Number of occurrences of the retention placeholder in a predicate template.
PlaceholderCount(w) == Cardinality({ i \in 1..Len(w) : w[i] = Placeholder })

\* The Policy Record invariant of the design, on a raw row.
WellFormedRow(r) ==
  /\ PlaceholderCount(r.where_condition) = 1
  /\ IsIntText(r.config_id) /\ IsIntText(r.retension_days) /\ IsIntText(r.delete_limit)
  /\ IntOf(r.delete_limit) > 0
  /\ IntOf(r.retension_days) >= 0

RECURSIVE SumOver(_, _)
SumOver(S, f) ==
  IF S = {} THEN 0
  ELSE LET x == CHOOSE y \in S : TRUE IN f[x] + SumOver(S \ {x}, f)

Loaded == 1..Len(configs)

\* C4: at the summary every loaded policy has been attempted once, in
\* retrieval order, whichever of them failed; failed counts the policies whose
\* execution raised, successful the others, and they add up to the number of
\* policies.
C4_FailureIsolation ==
  (pc = "done" /\ configs # << >>)
  => /\ attempted = [k \in Loaded |-> configs[k].config_id]
     /\ failed = Cardinality({ i \in Loaded : hist[i].phase = "raised" })
     /\ successful = Cardinality({ i \in Loaded : hist[i].phase # "raised" })
     /\ successful + failed = Len(configs)

C4_Witness ==
  /\ pc = "done"
  /\ Len(configs) = MaxPolicies
  /\ hist[1].phase = "raised"
  /\ hist[MaxPolicies].phase = "returned"
  /\ failed = 1
  /\ successful = MaxPolicies - 1

\* C5: in a dry run no statement is sent to any database, no row is removed,
\* every policy attempted is recorded with 0 rows deleted and the total of
\* rows deleted is 0.
C5_DryRun ==
  dry_run
  => /\ log = << >>
     /\ total_rows_deleted = 0
     /\ \A i \in Ids : /\ hist[i].removed = 0
                       /\ hist[i].phase = "none"
                       /\ hist[i].ret = 0
                       /\ hist[i].status # "failed"

C5_Witness ==
  /\ dry_run
  /\ pc = "done"
  /\ successful = MaxPolicies
  /\ \A i \in Ids : rows[i] > 0 /\ hist[i].status = "ok"

\* C6 as claimed: a row that violates the Policy Record invariant is not among
\* the loaded policies and no DELETE is sent for it, while the load does not
\* fail on it and returns every well-formed row.
C6_MalformedRejected ==
  /\ error # "ValueError"
  /\ pc \in {"policy", "loop", "update"}
       => \A i \in 1..Len(cfgTable) :
            WellFormedRow(cfgTable[i]) <=> (\E k \in Loaded : configs[k].config_id = i)
  /\ \A k \in 1..Len(log) :
       log[k].op = "DELETE" => WellFormedRow(cfgTable[log[k].id])

\* C8: once a DELETE of a policy has failed the loop of that policy is over,
\* the failed DELETE is the last statement sent for the policy, and the
\* policy is counted as failed; at the summary the total of rows
\* deleted is the sum of what execute_batch_delete returned for the policies
\* counted as successful, with nothing of a failed policy's partial total.
C8_PartialTotalDiscarded ==
  /\ \A i \in Ids :
       hist[i].phase = "raised"
       => /\ hist[i].status = "failed"
          /\ ~(pc \in {"loop", "update"} /\ idx = i)
          /\ Cardinality(Sent("DELETE", i)) = hist[i].iters
          /\ log[hist[i].iters + Cardinality({ k \in 1..Len(log) : log[k].id < i })]
               = [op |-> "DELETE", id |-> i]
  /\ pc = "done"
       => total_rows_deleted =
            SumOver({ i \in Loaded : hist[i].status = "ok" }, [i \in Ids |-> hist[i].total])

C8_Witness ==
  /\ pc = "done"
  /\ \E i, j \in Loaded :
       /\ hist[i].phase = "raised"
       /\ hist[i].partial > 0
       /\ hist[j].status = "ok"
       /\ hist[j].total > 0
       /\ i < j

\* C9: a failed UPDATE of last_run_at is suppressed: the policy is counted as
\* successful with the rows its batch deletion returned, the next policy is
\* processed, and the summary's total includes those rows.
C9_BestEffortTimestamp ==
  /\ \A i \in Ids :
       hist[i].upd = "failed"
       => /\ hist[i].status = "ok"
          /\ hist[i].ret = hist[i].total
          /\ idx > i
  /\ pc = "done"
       => /\ total_rows_deleted =
               SumOver({ i \in Loaded : hist[i].phase = "returned" }, [i \in Ids |-> hist[i].total])
          /\ successful >= Cardinality({ i \in Loaded : hist[i].upd = "failed" })
          /\ Len(attempted) = Len(configs)

C9_Witness ==
  /\ pc = "done"
  /\ failed = 0
  /\ \E i, j \in Loaded :
       /\ hist[i].upd = "failed"
       /\ hist[i].total > 0
       /\ i < j
       /\ hist[j].phase = "returned"
       /\ total_rows_deleted > hist[j].total

\* The UPDATE of policy i comes after every DELETE of policy i and before
\* every DELETE of a later policy.
UpdateInOrder(i) ==
  \E u \in Sent("UPDATE", i) :
    \A k \in 1..Len(log) :
      log[k].op = "DELETE" => /\ log[k].id = i => k < u
                              /\ log[k].id > i => k > u

\* C10 as claimed: outside a dry run, every policy whose batch deletion was
\* executed, successfully or not, gets its last-run UPDATE, in order; a dry
\* run sends no UPDATE.
C10_UpdateAfterEveryAttempt ==
  /\ ~dry_run => \A i \in Ids : hist[i].status # "none" => UpdateInOrder(i)
  /\ dry_run => \A k \in 1..Len(log) : log[k].op # "UPDATE"

\* C10 amended: outside a dry run, every policy whose batch deletion returned
\* without error gets exactly one last-run UPDATE, after its last DELETE and
\* before the first DELETE of the next policy; a policy whose batch deletion
\* failed gets none, and a dry run sends none.
C10_UpdateAfterSuccess ==
  /\ ~dry_run => \A i \in Ids :
       /\ hist[i].status = "ok" => UpdateInOrder(i) /\ Cardinality(Sent("UPDATE", i)) = 1
       /\ hist[i].status = "failed" => Sent("UPDATE", i) = {}
       /\ hist[i].status = "none" => Sent("UPDATE", i) = {}
  /\ dry_run => \A k \in 1..Len(log) : log[k].op # "UPDATE"

C10_Witness ==
  /\ ~dry_run
  /\ pc = "done"
  /\ \E i, j \in Loaded :
       /\ i < j
       /\ hist[i].status = "ok" /\ hist[i].iters > 1
       /\ hist[j].status = "failed" /\ hist[j].iters > 1

\* C11 as claimed: execute_batch_delete logs the maximum-iterations warning
\* if and only if it returns without any DELETE having affected 0 rows; a run
\* whose last DELETE affected 0 rows never logs it, also when that DELETE is
\* number max_iterations.
C11_WarningOnlyWithoutConvergence ==
  \A i \in Ids :
    hist[i].phase = "returned" => (hist[i].warned <=> hist[i].zeros = 0)

====
